---- MODULE Spec2Model ----
(***************************************************************************)
(* Graph assembly of Selfie2BitmojiModel (src/models/s2b_model.py).        *)
(*                                                                         *)
(* The model follows _build_graph statement by statement.  The state is    *)
(* the graph's variable store (name, trainable flag, shape, value), the    *)
(* tensors bound to the locals of _build_graph, the attribute self.preds,  *)
(* the six losses and self.cost.  A tensor is kept symbolically: the       *)
(* placeholders and noise ops it depends on and the chain of operations    *)
(* of the sub-network invocation that produced it.                         *)
(***************************************************************************)
EXTENDS Integers, Sequences, FiniteSets, TLC

\* len(arch['conv_filters']) - 1 ranges over 0..MaxStages
MaxStages == 2
\* BITMOJI_PARAM_SPLIT has 1..MaxSegs segments of 1..MaxSegSize entries
MaxSegs == 2
MaxSegSize == 2
\* entries of the flattened convolution output are quantised to 0..MaxLevel
MaxLevel == 1
\* the flattened convolution output has 1..MaxWidth entries
MaxWidth == 3
\* training steps taken after the build
MaxSteps == 1

VARIABLES
    cfg,          \* archs.* and BITMOJI_PARAM_SPLIT
    pc,           \* the statement of _build_graph to run next
    err,          \* the exception that ended the build, or "none"
    registry,     \* the graph's variables
    selfPreds,    \* the attribute self.preds
    env,          \* the tensors bound to the locals of _build_graph
    callLog,      \* one record per sub-network invocation, in order
    noiseCount,   \* tf.random_normal ops created so far
    flat,         \* value of the flattened convolution output in _param_encoder
    paramVals,    \* value of the vector _param_encoder returns
    losses,       \* self.l_c .. self.l_tv
    costDefined,  \* whether self.cost has been assigned
    optimizer,    \* whether _get_optimizer has run
    lossVal,      \* finiteness of L_gan_d / L_gan_g in the last evaluation
    dPred,        \* the discriminator predictions of the last evaluation
    stepStatus,   \* "none", "evaluated", "applied" or "error"
    steps         \* optimizer steps applied

vars == <<cfg, pc, err, registry, selfPreds, env, callLog, noiseCount, flat,
          paramVals, losses, costDefined, optimizer, lossVal, dPred,
          stepStatus, steps>>

-----------------------------------------------------------------------------
(* Tensors *)

Undef == [def |-> FALSE, src |-> {}, noise |-> {}, ops |-> << >>, width |-> "none"]

Placeholder(name) ==
    [def |-> TRUE, src |-> {name}, noise |-> {}, ops |-> << >>, width |-> "IMG_DIMS"]

\* the result of applying the operations `o` to the tensor t
Apply(t, o) == [t EXCEPT !.ops = @ \o o]

\* a tensor entering a sub-network: its operation chain starts afresh
Enter(t) == [t EXCEPT !.ops = << >>]

Locals == {"face_imgs", "bitmoji_imgs", "face_encodings", "gen_faces", "params",
           "avatar_synth_faces", "d_preds_real", "d_preds_fake",
           "gen_face_encodings", "bitmoji_encodings", "regen_bitmoji"}

-----------------------------------------------------------------------------
(* The variable store *)

Var(name, trainable, shape) ==
    [name |-> name, trainable |-> trainable, shape |-> shape, val |-> 0]

\* the state threaded through one sub-network invocation
Builder(reg) == [reg |-> reg, err |-> "none", used |-> {}, created |-> {}]

\* the variable scope a sub-network opens on its call-th invocation
ScopeOfPerCall(net, call) == IF call = 0 THEN net ELSE "Anonymous"

ScopeOf(net, call) == net

\* the reuse mode a layer sees: reuse=False/None inherits the enclosing scope's
LayerReuse(scopeReuse, layerReuse) ==
    IF layerReuse = "True" THEN "True" ELSE scopeReuse

\* tf.get_variable under a reuse mode
get_variable(st, reuse, v) ==
    IF st.err # "none" THEN st
    ELSE IF \E u \in st.reg : u.name = v.name
         THEN LET u == CHOOSE u \in st.reg : u.name = v.name IN
              IF reuse = "None" \/ u.shape # v.shape
              THEN [st EXCEPT !.err = "ValueError"]
              ELSE [st EXCEPT !.used = @ \cup {v.name}]
         ELSE IF reuse = "True"
              THEN [st EXCEPT !.err = "ValueError"]
              ELSE [st EXCEPT !.reg = @ \cup {v},
                              !.used = @ \cup {v.name},
                              !.created = @ \cup {v.name}]

\* tf.layers.dense / conv2d / conv2d_transpose: a kernel and a bias
KernelLayer(st, reuse, scope, layer, i, trainable, shape) ==
    get_variable(
        get_variable(st, reuse, Var(<<scope, layer, i, "kernel">>, trainable, shape)),
        reuse, Var(<<scope, layer, i, "bias">>, trainable, "out"))

\* tf.layers.batch_normalization: gamma and beta follow `trainable`, the moving
\* statistics are never trainable
BNLayer(st, reuse, scope, layer, i, trainable) ==
    get_variable(get_variable(get_variable(get_variable(st,
        reuse, Var(<<scope, layer, i, "gamma">>, trainable, "out")),
        reuse, Var(<<scope, layer, i, "beta">>, trainable, "out")),
        reuse, Var(<<scope, layer, i, "moving_mean">>, FALSE, "out")),
        reuse, Var(<<scope, layer, i, "moving_variance">>, FALSE, "out"))

-----------------------------------------------------------------------------
(* Sub-networks.  Each takes the builder state and its input tensor and     *)
(* returns [st |-> builder state, out |-> returned tensor].                 *)

\* vae_gan.conv2d / fully_connect / batch_normal: tf.get_variable on each of
\* the layer's weights inside tf.variable_scope(name)
VaeGanLayer(st, reuse, scope, layer, kind) ==
    CASE kind = "conv2d" ->
           get_variable(get_variable(st,
               reuse, Var(<<scope, layer, 0, "w">>, TRUE, "fixed")),
               reuse, Var(<<scope, layer, 0, "biases">>, TRUE, "out"))
      [] kind = "fully_connect" ->
           get_variable(get_variable(st,
               reuse, Var(<<scope, layer, 0, "Matrix">>, TRUE, "fixed")),
               reuse, Var(<<scope, layer, 0, "bias">>, TRUE, "out"))
      [] OTHER -> BNLayer(st, reuse, scope, layer, 0, TRUE)

\* the layers of _face_encoder in construction order
FaceEncoderLayers ==
    << <<"e_c1", "conv2d">>, <<"e_bn1", "batch_normal">>,
       <<"e_c2", "conv2d">>, <<"e_bn2", "batch_normal">>,
       <<"e_c3", "conv2d">>, <<"e_bn3", "batch_normal">>,
       <<"e_f1", "fully_connect">>, <<"e_bn4", "batch_normal">>,
       <<"e_f2", "fully_connect">>, <<"e_f3", "fully_connect">> >>

RECURSIVE FaceEncoderVars(_, _, _, _)
FaceEncoderVars(st, reuse, scope, k) ==
    IF k > Len(FaceEncoderLayers) THEN st
    ELSE FaceEncoderVars(
             VaeGanLayer(st, reuse, scope, FaceEncoderLayers[k][1],
                         FaceEncoderLayers[k][2]),
             reuse, scope, k + 1)

\* the tf.random_normal op every invocation of _face_encoder creates
CachedNoise(count) == 0

NoiseOp(count) == count

face_encoder(st, imgs, call, count) ==
    LET scope == ScopeOf("Face_Encoder/Encode", call)
        s1 == FaceEncoderVars(st, "AUTO_REUSE", scope, 1)
        fc1 == Apply(Enter(imgs),
                     <<"e_c1", "e_bn1", "relu", "e_c2", "e_bn2", "relu",
                       "e_c3", "e_bn3", "relu", "reshape",
                       "e_f1", "e_bn4", "relu">>)
        z_x == [Apply(fc1, <<"e_f2", "e_f3", "exp", "sqrt", "mul", "add">>)
                   EXCEPT !.noise = @ \cup {NoiseOp(count)},
                          !.width = "FACE_ENCODING_SIZE"]
    IN [st |-> s1, out |-> IF s1.err = "none" THEN z_x ELSE Undef]

\* the activation _generator gives Deconv_i and Conv_i of stage i out of n
GeneratorDeconvActivation(i, n) == IF i = n - 1 THEN "tanh" ELSE "relu"

GeneratorConvActivation(i, n) == "relu"

RECURSIVE GeneratorStages(_, _, _, _, _)
GeneratorStages(st, preds, scope, i, n) ==
    IF i >= n \/ st.err # "none" THEN [st |-> st, out |-> preds]
    ELSE LET s1 == KernelLayer(st, "AUTO_REUSE", scope, "Deconv", i, TRUE, "arch")
             p1 == Apply(preds, <<"Deconv", GeneratorDeconvActivation(i, n)>>)
             s2 == KernelLayer(s1, "AUTO_REUSE", scope, "Conv", i, TRUE, "arch")
             p2 == Apply(p1, <<"Conv", GeneratorConvActivation(i, n)>>)
             interior == i < n - 1
             s3 == IF interior
                   THEN BNLayer(s2, "AUTO_REUSE", scope, "BN", i, TRUE)
                   ELSE s2
             p3 == IF interior
                   THEN Apply(p2, <<"batch_normalization", "dropout">>)
                   ELSE p2
         IN GeneratorStages(s3, p3, scope, i + 1, n)

generator(st, encodings, call, n) ==
    LET scope == ScopeOf("Generator", call)
        s0 == KernelLayer(st, LayerReuse("AUTO_REUSE", "False"), scope, "FC", 0,
                          TRUE, encodings.width)
        p0 == [Apply(Enter(encodings), <<"FC", "relu", "reshape">>)
                  EXCEPT !.width = "IMG_DIMS"]
        r  == GeneratorStages(s0, p0, scope, 0, n)
    IN [st |-> r.st, out |-> IF r.st.err = "none" THEN r.out ELSE Undef]

\* _discriminator and the convolution stack of _param_encoder
RECURSIVE ConvStages(_, _, _, _, _)
ConvStages(st, preds, scope, i, n) ==
    IF i >= n \/ st.err # "none" THEN [st |-> st, out |-> preds]
    ELSE LET activation == IF i = n - 1 THEN "sigmoid" ELSE "leaky_relu"
             s1 == KernelLayer(st, "AUTO_REUSE", scope, "Conv", i, TRUE, "arch")
             p1 == Apply(preds, <<"Conv", activation>>)
             interior == i < n - 1
             s2 == IF interior
                   THEN BNLayer(s1, "AUTO_REUSE", scope, "BN", i, TRUE)
                   ELSE s1
             p2 == IF interior
                   THEN Apply(p1, <<"batch_normalization", "dropout">>)
                   ELSE p1
         IN ConvStages(s2, p2, scope, i + 1, n)

discriminator(st, imgs, call, n) ==
    LET r == ConvStages(st, Enter(imgs), ScopeOf("Discriminator", call), 0, n)
    IN [st |-> r.st, out |-> IF r.st.err = "none" THEN r.out ELSE Undef]

-----------------------------------------------------------------------------
(* _param_encoder: split, per-segment softmax, concat.  A value of the      *)
(* output is the fraction num/den; exp is modelled by the positive,         *)
(* increasing function 2^x on the quantised levels.                         *)

Exp(x) == 2 ^ x

RECURSIVE SumSeq(_)
SumSeq(s) == IF s = << >> THEN 0 ELSE Head(s) + SumSeq(Tail(s))

\* tf.split(value, size_splits, axis=1): consecutive slices of the given sizes
RECURSIVE Split(_, _)
Split(v, sizes) ==
    IF sizes = << >> THEN << >>
    ELSE <<SubSeq(v, 1, Head(sizes))>>
         \o Split(SubSeq(v, Head(sizes) + 1, Len(v)), Tail(sizes))

\* tf.nn.softmax over the last axis of one segment
Softmax(seg) ==
    LET total == SumSeq([j \in 1..Len(seg) |-> Exp(seg[j])])
    IN [j \in 1..Len(seg) |-> [num |-> Exp(seg[j]), den |-> total]]

\* tf.concat(..., 1)
RECURSIVE Concat(_)
Concat(parts) == IF parts = << >> THEN << >> ELSE Head(parts) \o Concat(Tail(parts))

\* one softmax over the whole vector, the split forgotten
SoftmaxWhole(v, sizes) == Softmax(v)

\* lines 284-288 on the value v of the convolution stack's flattened output
SplitSoftmaxConcat(v, sizes) ==
    LET param_sets == Split(v, sizes)
    IN Concat([k \in 1..Len(param_sets) |-> Softmax(param_sets[k])])

\* the graph _param_encoder builds when the flattened output is w entries wide;
\* tf.split raises ValueError unless the sizes add up to w
param_encoder(st, gen_faces, call, n, w, sizes) ==
    LET r == ConvStages(st, Enter(gen_faces), ScopeOf("Param_Encoder", call), 0, n)
        bad == r.st.err = "none" /\ SumSeq(sizes) # w
        s1 == IF bad THEN [r.st EXCEPT !.err = "ValueError"] ELSE r.st
    IN [st |-> s1,
        out |-> IF s1.err = "none"
                THEN [Apply(r.out, <<"flatten", "split", "softmax", "concat">>)
                         EXCEPT !.width = "BITMOJI_PARAM_SIZE"]
                ELSE Undef]

-----------------------------------------------------------------------------
(* _avatar_synth.  `preds` is the local, `sp` the attribute self.preds.     *)

\* the trainable argument of the three layer constructions of a stage
AvatarSynthTrainable(layer) ==
    CASE layer = "Deconv" -> FALSE
      [] layer = "Conv" -> FALSE
      [] OTHER -> TRUE

RECURSIVE AvatarSynthStages(_, _, _, _, _, _)
AvatarSynthStages(st, preds, sp, scope, i, n) ==
    IF i >= n \/ st.err # "none" THEN [st |-> st, out |-> preds, sp |-> sp]
    ELSE LET activation == IF i = n - 1 THEN "tanh" ELSE "relu"
             s1 == KernelLayer(st, "AUTO_REUSE", scope, "Deconv", i,
                               AvatarSynthTrainable("Deconv"), "arch")
             p1 == Apply(preds, <<"Deconv", "relu">>)
             \* reading self.preds before any assignment raises AttributeError
             s2 == IF s1.err = "none" /\ ~sp.def
                   THEN [s1 EXCEPT !.err = "AttributeError"]
                   ELSE KernelLayer(s1, "AUTO_REUSE", scope, "Conv", i,
                                    AvatarSynthTrainable("Conv"), "arch")
             sp2 == IF s2.err = "none" THEN Apply(sp, <<"Conv", activation>>) ELSE sp
             interior == i < n - 1
             s3 == IF interior
                   THEN BNLayer(s2, "AUTO_REUSE", scope, "BN", i,
                                AvatarSynthTrainable("BN"))
                   ELSE s2
             p3 == IF interior THEN Apply(p1, <<"batch_normalization">>) ELSE p1
         IN AvatarSynthStages(s3, p3, sp2, scope, i + 1, n)

avatar_synth(st, params, sp, call, n) ==
    LET p0 == [Apply(Enter(params), <<"reshape">>) EXCEPT !.width = "IMG_DIMS"]
        r == AvatarSynthStages(st, p0, sp, ScopeOf("Avatar_Synth", call), 0, n)
    IN [st |-> r.st, out |-> IF r.st.err = "none" THEN r.out ELSE Undef, sp |-> r.sp]

-----------------------------------------------------------------------------
(* Losses *)

NoLoss == [form |-> "none", a |-> "none", b |-> "none"]

MSE(x, y) == [form |-> "mean(square(a-b))", a |-> x, b |-> y]

\* the textbook discriminator loss, contrasting real and generated predictions
StandardGanLoss(own, other) ==
    [form |-> "mean(log(1-a))+mean(log(b))", a |-> other, b |-> own]

\* lines 80-85: both terms read the loss's own prediction tensor
GanLoss(own, other) ==
    [form |-> "mean(log(1-a))+mean(log(b))", a |-> own, b |-> own]

LossNames == {"l_c", "l_const", "l_gan_d", "l_gan_g", "l_tid", "l_tv"}

\* tf.log of a prediction that is exactly 0, strictly inside (0,1), exactly 1
PredLevels == {"zero", "mid", "one"}

Log(p) == IF p = "zero" THEN "-inf" ELSE "finite"

LogOneMinus(p) == IF p = "one" THEN "-inf" ELSE "finite"

Add(x, y) == IF x = "finite" /\ y = "finite" THEN "finite" ELSE "-inf"

\* the value of a GAN loss under the predictions d
GanLossValue(l, d) == Add(LogOneMinus(d[l.a]), Log(d[l.b]))

-----------------------------------------------------------------------------
(* Configuration and initial state *)

Splits == UNION {[1..k -> 1..MaxSegSize] : k \in 1..MaxSegs}

FlatValues == UNION {[1..w -> 0..MaxLevel] : w \in 1..MaxWidth}

Calls(net) == Cardinality({k \in 1..Len(callLog) : callLog[k].net = net})

Init ==
    /\ cfg \in [gen : 0..MaxStages, synth : 0..MaxStages, penc : 0..MaxStages,
                split : Splits]
    /\ pc = "L41"
    /\ err = "none"
    /\ registry = {}
    /\ selfPreds = Undef
    /\ env = [n \in Locals |->
                IF n = "face_imgs" THEN Placeholder("Face_Images")
                ELSE IF n = "bitmoji_imgs" THEN Placeholder("Bitmoji_Images")
                ELSE Undef]
    /\ callLog = << >>
    /\ noiseCount = 0
    /\ flat = << >>
    /\ paramVals = << >>
    /\ losses = [l \in LossNames |-> NoLoss]
    /\ costDefined = FALSE
    /\ optimizer = FALSE
    /\ lossVal = [l \in {"l_gan_d", "l_gan_g"} |-> "none"]
    /\ dPred = [t \in {"d_preds_real", "d_preds_fake"} |-> "none"]
    /\ stepStatus = "none"
    /\ steps = 0

\* bind the result r of invoking `net` to the local `name` and go on to `next`,
\* or leave _build_graph with the exception r raised
Bind(r, net, name, noise, next) ==
    /\ registry' = r.st.reg
    /\ err' = r.st.err
    /\ pc' = IF r.st.err = "none" THEN next ELSE "error"
    /\ env' = [env EXCEPT ![name] = r.out]
    /\ callLog' = Append(callLog, [net |-> net, bound |-> name,
                                   used |-> r.st.used, created |-> r.st.created,
                                   noise |-> noise, raised |-> r.st.err])

Training == <<losses, costDefined, optimizer, lossVal, dPred, stepStatus, steps>>

-----------------------------------------------------------------------------
(* _build_graph, one action per statement *)

\* line 41
L41_face_encoder ==
    /\ pc = "L41"
    /\ Bind(face_encoder(Builder(registry), env["face_imgs"],
                         Calls("Face_Encoder"), noiseCount),
            "Face_Encoder", "face_encodings", NoiseOp(noiseCount), "L42")
    /\ noiseCount' = noiseCount + 1
    /\ UNCHANGED <<cfg, selfPreds, flat, paramVals, Training>>

\* line 42
L42_generator ==
    /\ pc = "L42"
    /\ Bind(generator(Builder(registry), env["face_encodings"],
                      Calls("Generator"), cfg.gen),
            "Generator", "gen_faces", -1, "L43")
    /\ UNCHANGED <<cfg, selfPreds, noiseCount, flat, paramVals, Training>>

\* line 43
L43_param_encoder ==
    /\ pc = "L43"
    /\ \E w \in 1..MaxWidth :
          Bind(param_encoder(Builder(registry), env["gen_faces"],
                             Calls("Param_Encoder"), cfg.penc, w, cfg.split),
               "Param_Encoder", "params", -1, "L44")
    /\ UNCHANGED <<cfg, selfPreds, noiseCount, flat, paramVals, Training>>

\* line 44
L44_avatar_synth ==
    /\ pc = "L44"
    /\ LET r == avatar_synth(Builder(registry), env["params"], selfPreds,
                             Calls("Avatar_Synth"), cfg.synth)
       IN /\ Bind(r, "Avatar_Synth", "avatar_synth_faces", -1, "L47")
          /\ selfPreds' = r.sp
    /\ UNCHANGED <<cfg, noiseCount, flat, paramVals, Training>>

\* line 47; _discriminator reads archs.avatar_synth_model
L47_discriminator ==
    /\ pc = "L47"
    /\ Bind(discriminator(Builder(registry), env["bitmoji_imgs"],
                          Calls("Discriminator"), cfg.synth),
            "Discriminator", "d_preds_real", -1, "L48")
    /\ UNCHANGED <<cfg, selfPreds, noiseCount, flat, paramVals, Training>>

\* line 48
L48_discriminator ==
    /\ pc = "L48"
    /\ Bind(discriminator(Builder(registry), env["gen_faces"],
                          Calls("Discriminator"), cfg.synth),
            "Discriminator", "d_preds_fake", -1, "L51")
    /\ UNCHANGED <<cfg, selfPreds, noiseCount, flat, paramVals, Training>>

\* line 51
L51_face_encoder ==
    /\ pc = "L51"
    /\ Bind(face_encoder(Builder(registry), env["gen_faces"],
                         Calls("Face_Encoder"), noiseCount),
            "Face_Encoder", "gen_face_encodings", NoiseOp(noiseCount), "L52a")
    /\ noiseCount' = noiseCount + 1
    /\ UNCHANGED <<cfg, selfPreds, flat, paramVals, Training>>

\* line 52, the inner call
L52_face_encoder ==
    /\ pc = "L52a"
    /\ Bind(face_encoder(Builder(registry), env["bitmoji_imgs"],
                         Calls("Face_Encoder"), noiseCount),
            "Face_Encoder", "bitmoji_encodings", NoiseOp(noiseCount), "L52b")
    /\ noiseCount' = noiseCount + 1
    /\ UNCHANGED <<cfg, selfPreds, flat, paramVals, Training>>

\* line 52, the outer call
L52_generator ==
    /\ pc = "L52b"
    /\ Bind(generator(Builder(registry), env["bitmoji_encodings"],
                      Calls("Generator"), cfg.gen),
            "Generator", "regen_bitmoji", -1, "L54")
    /\ UNCHANGED <<cfg, selfPreds, noiseCount, flat, paramVals, Training>>

\* lines 54-107: the six losses and their summaries; self.cost is not assigned
L54_losses ==
    /\ pc = "L54"
    /\ losses' = [l \in LossNames |->
          CASE l = "l_c"     -> MSE("gen_faces", "avatar_synth_faces")
            [] l = "l_const" -> MSE("face_encodings", "gen_face_encodings")
            [] l = "l_gan_d" -> GanLoss("d_preds_real", "d_preds_fake")
            [] l = "l_gan_g" -> GanLoss("d_preds_fake", "d_preds_real")
            [] l = "l_tid"   -> MSE("bitmoji_imgs", "regen_bitmoji")
            [] OTHER         -> [form |-> "mean(sqrt(square(left-a)+square(up-b)))",
                                 a |-> "gen_faces", b |-> "gen_faces"]]
    /\ pc' = "done"
    /\ UNCHANGED <<cfg, err, registry, selfPreds, env, callLog, noiseCount, flat,
                   paramVals, costDefined, optimizer, lossVal, dPred, stepStatus,
                   steps>>

-----------------------------------------------------------------------------
(* After the build *)

\* _get_optimizer: the learning-rate variable and an Adam optimizer
get_optimizer ==
    /\ pc = "done"
    /\ ~optimizer
    /\ optimizer' = TRUE
    /\ registry' = registry \cup {Var(<<"Avatar_Synth", "LR", 0, "">>, FALSE, "scalar")}
    /\ UNCHANGED <<cfg, pc, err, selfPreds, env, callLog, noiseCount, flat,
                   paramVals, losses, costDefined, lossVal, dPred, stepStatus, steps>>

\* one evaluation of L_gan_d and L_gan_g on some discriminator predictions
EvalLosses ==
    /\ pc = "done"
    /\ steps < MaxSteps
    /\ stepStatus \in {"none", "applied"}
    /\ \E d \in [{"d_preds_real", "d_preds_fake"} -> PredLevels] :
          /\ dPred' = d
          /\ lossVal' = [l \in {"l_gan_d", "l_gan_g"} |-> GanLossValue(losses[l], d)]
    /\ stepStatus' = "evaluated"
    /\ UNCHANGED <<cfg, pc, err, registry, selfPreds, env, callLog, noiseCount,
                   flat, paramVals, losses, costDefined, optimizer, steps>>

\* one step of the optimizer _get_optimizer returns: every trainable variable moves
OptimizerStep ==
    /\ pc = "done"
    /\ optimizer
    /\ stepStatus = "evaluated"
    /\ registry' = {IF v.trainable THEN [v EXCEPT !.val = @ + 1] ELSE v : v \in registry}
    /\ steps' = steps + 1
    /\ stepStatus' = "applied"
    /\ UNCHANGED <<cfg, pc, err, selfPreds, env, callLog, noiseCount, flat,
                   paramVals, losses, costDefined, optimizer, lossVal, dPred>>

Next ==
    \/ L41_face_encoder
    \/ L42_generator
    \/ L43_param_encoder
    \/ L44_avatar_synth
    \/ L47_discriminator
    \/ L48_discriminator
    \/ L51_face_encoder
    \/ L52_face_encoder
    \/ L52_generator
    \/ L54_losses
    \/ get_optimizer
    \/ EvalLosses
    \/ OptimizerStep

Spec == Init /\ [][Next]_vars

-----------------------------------------------------------------------------
(* The values _param_encoder computes, on every flattened output and every  *)
(* BITMOJI_PARAM_SPLIT within the bounds.                                   *)

InitParams ==
    /\ cfg \in [gen : {0}, synth : {0}, penc : {0}, split : Splits]
    /\ pc = "L284"
    /\ err = "none"
    /\ registry = {}
    /\ selfPreds = Undef
    /\ env = [n \in Locals |-> Undef]
    /\ callLog = << >>
    /\ noiseCount = 0
    /\ flat \in FlatValues
    /\ paramVals = << >>
    /\ losses = [l \in LossNames |-> NoLoss]
    /\ costDefined = FALSE
    /\ optimizer = FALSE
    /\ lossVal = [l \in {"l_gan_d", "l_gan_g"} |-> "none"]
    /\ dPred = [t \in {"d_preds_real", "d_preds_fake"} |-> "none"]
    /\ stepStatus = "none"
    /\ steps = 0

\* lines 284-291 on the flattened output `flat`
L284_split_softmax_concat ==
    /\ pc = "L284"
    /\ IF SumSeq(cfg.split) = Len(flat)
       THEN /\ paramVals' = SplitSoftmaxConcat(flat, cfg.split)
            /\ pc' = "returned"
            /\ err' = err
       ELSE /\ paramVals' = paramVals
            /\ pc' = "error"
            /\ err' = "ValueError"
    /\ UNCHANGED <<cfg, registry, selfPreds, env, callLog, noiseCount, flat, Training>>

NextParams == L284_split_softmax_concat

SpecParams == InitParams /\ [][NextParams]_vars

-----------------------------------------------------------------------------
(* Properties *)

Invocations(net) == {k \in 1..Len(callLog) : callLog[k].net = net}

Names(reg) == {v.name : v \in reg}

LastOps(t, k) == SubSeq(t.ops, Len(t.ops) - k + 1, Len(t.ops))

\* the weights the stages of an n-stage synthesizer architecture call for
AvatarSynthWeights(n) ==
    {<<"Avatar_Synth", l, i, part>> :
        l \in {"Deconv", "Conv"}, i \in 0..(n - 1), part \in {"kernel", "bias"}}
    \cup {<<"Avatar_Synth", "BN", i, part>> :
        i \in 0..(n - 2), part \in {"gamma", "beta"}}

\* C1: once _avatar_synth has been invoked, the deconvolution and refinement
\* convolution kernels and biases of every stage and the batch-normalization
\* parameters of every interior stage are variables of the Avatar_Synth scope,
\* none of them is trainable, and each still has the value it started with,
\* whatever optimizer steps have been taken.
C1_FrozenWeights ==
    Calls("Avatar_Synth") > 0 =>
        \A name \in AvatarSynthWeights(cfg.synth) :
            \E v \in registry : v.name = name /\ ~v.trainable /\ v.val = 0

\* C1, the state it fails in: the synthesizer was asked for two stages and the
\* store holds only the first deconvolution.
C1_Reached ==
    /\ Calls("Avatar_Synth") = 1
    /\ cfg.synth = 2
    /\ <<"Avatar_Synth", "Deconv", 0, "kernel">> \in Names(registry)
    /\ <<"Avatar_Synth", "BN", 0, "gamma">> \notin Names(registry)


\* the weights of an invocation that belong to the generator's input projection
FCOf(e) == {n \in e.used : n[2] = "FC"}

RECURSIVE SumOver(_, _, _)
SumOver(f, lo, hi) == IF lo > hi THEN 0 ELSE f[lo] + SumOver(f, lo + 1, hi)

\* first and last index of segment k of BITMOJI_PARAM_SPLIT
SegLo(k) == 1 + SumOver(cfg.split, 1, k - 1)

SegHi(k) == SumOver(cfg.split, 1, k)

\* C3: the vector _param_encoder returns is as wide as the segment sizes add up
\* to; in every segment the entries are non-negative and sum to 1; entry j of
\* segment k is exp of entry j of the flattened output over the sum of exp
\* across segment k of the flattened output alone.
C3_SegmentsNormalised ==
    pc = "returned" =>
        /\ Len(paramVals) = SumOver(cfg.split, 1, Len(cfg.split))
        /\ \A k \in 1..Len(cfg.split) :
              /\ \A j \in SegLo(k)..SegHi(k) :
                    /\ paramVals[j].num >= 0
                    /\ paramVals[j].den > 0
                    /\ paramVals[j].num = Exp(flat[j])
                    /\ paramVals[j].den
                          = SumOver([m \in 1..Len(flat) |-> Exp(flat[m])],
                                    SegLo(k), SegHi(k))
              /\ SumOver([m \in 1..Len(paramVals) |-> paramVals[m].num],
                         SegLo(k), SegHi(k))
                    = paramVals[SegLo(k)].den

\* C3, its case: two segments of different sizes, on an output whose entries differ.
C3_TwoSegments ==
    /\ pc = "returned"
    /\ Len(cfg.split) = 2
    /\ cfg.split[1] # cfg.split[2]
    /\ \E i, j \in 1..Len(flat) : flat[i] # flat[j]

\* C4: when the architecture has a stage, the image _generator returns comes
\* straight out of tanh, and every earlier stage ends with ReLU, batch
\* normalization and dropout.
C4_TanhLast ==
    (env["gen_faces"].def /\ cfg.gen >= 1) =>
        /\ LastOps(env["gen_faces"], 1) = <<"tanh">>
        /\ \A i \in 1..(cfg.gen - 1) :
              SubSeq(env["gen_faces"].ops, 3 + 6 * i - 2, 3 + 6 * i)
                  = <<"relu", "batch_normalization", "dropout">>

\* C4, the state it fails in: a generated image whose last operation is ReLU.
C4_Reached ==
    /\ env["gen_faces"].def
    /\ cfg.gen = 2
    /\ LastOps(env["gen_faces"], 4) = <<"Deconv", "tanh", "Conv", "relu">>

\* C5: two invocations of _generator read disjoint projection weights and the
\* same weights in every layer after the projection.
C5_ProjectionUnshared ==
    \A j, k \in Invocations("Generator") :
        (j < k /\ callLog[j].raised = "none" /\ callLog[k].raised = "none") =>
            /\ FCOf(callLog[j]) \cap FCOf(callLog[k]) = {}
            /\ callLog[j].used \ FCOf(callLog[j]) = callLog[k].used \ FCOf(callLog[k])

\* C5, the state it fails in: the second invocation resolved the projection of
\* the first and created nothing.
C5_Reached ==
    \E j, k \in Invocations("Generator") :
        /\ j < k
        /\ FCOf(callLog[j]) = FCOf(callLog[k])
        /\ FCOf(callLog[k]) # {}
        /\ callLog[k].created = {}

\* C6: when _build_graph has completed, self.cost is defined and so are the six
\* losses.
C6_CostDefined ==
    pc = "done" => (costDefined /\ \A l \in LossNames : losses[l] # NoLoss)

\* C6, the state it fails in: the build is over, the losses are set, the cost is not.
C6_Reached ==
    pc = "done" /\ ~costDefined /\ \A l \in LossNames : losses[l] # NoLoss

\* C7: an invocation of _avatar_synth reads no value that was not produced
\* before, and on an architecture with a stage it returns the output of the
\* last stage's refinement convolution, itself fed by that stage's
\* deconvolution.
C7_DataPath ==
    \A k \in Invocations("Avatar_Synth") :
        /\ callLog[k].raised = "none"
        /\ cfg.synth >= 1 =>
              LastOps(env["avatar_synth_faces"], 4)
                  = <<"Deconv", "relu", "Conv", "tanh">>

\* C7, the state it fails in: the first refinement convolution read self.preds.
C7_Reached ==
    /\ pc = "error"
    /\ err = "AttributeError"
    /\ ~selfPreds.def
    /\ ~env["avatar_synth_faces"].def


C9_FreshNoise ==
    /\ \A j, k \in Invocations("Face_Encoder") :
          j # k => callLog[j].noise # callLog[k].noise
    /\ pc = "done" =>
          \E j, k \in Invocations("Face_Encoder") :
              /\ callLog[j].bound = losses["l_const"].a
              /\ callLog[k].bound = losses["l_const"].b
              /\ callLog[j].noise # callLog[k].noise
              /\ callLog[j].noise \in env[losses["l_const"].a].noise
              /\ callLog[k].noise \notin env[losses["l_const"].a].noise
              /\ callLog[k].noise \in env[losses["l_const"].b].noise
              /\ callLog[j].used = callLog[k].used

\* C9, its case: all three invocations of _face_encoder have run.
C9_ThreeEncodings ==
    /\ pc = "done"
    /\ Cardinality(Invocations("Face_Encoder")) = 3
    /\ Cardinality({callLog[k].noise : k \in Invocations("Face_Encoder")}) = 3

Saturated(p) == p \in {"zero", "one"}

\* C10: when a discriminator prediction is exactly 0 or 1, the evaluation ends
\* in the error state or the loss computed from that prediction is finite.
C10_NonFiniteDetected ==
    /\ (stepStatus # "none" /\ Saturated(dPred["d_preds_real"])) =>
          (stepStatus = "error" \/ lossVal["l_gan_d"] = "finite")
    /\ (stepStatus # "none" /\ Saturated(dPred["d_preds_fake"])) =>
          (stepStatus = "error" \/ lossVal["l_gan_g"] = "finite")

\* C10, the state it fails in: the optimizer stepped on a non-finite L_gan_d.
C10_Reached ==
    /\ stepStatus = "applied"
    /\ dPred["d_preds_real"] = "one"
    /\ lossVal["l_gan_d"] = "-inf"
    /\ \E v \in registry : v.val > 0

====
